---- MODULE Spec2Model ----
(***************************************************************************)
(* LEI lookup service (capstone_project.py): the fetcher                   *)
(* get_lei_information, the flattener json_to_dataframe, the relationship  *)
(* resolver fetch_relationship_data / extract_related_leis and the lookup  *)
(* cycle of the main script.                                               *)
(*                                                                         *)
(* Three specifications:                                                   *)
(*   Spec         the lookup cycle, one step per blocking network call     *)
(*   SpecFlatten  json_to_dataframe applied to bounded records             *)
(*   SpecExtract  extract_related_leis applied to bounded payload series   *)
(* Strings that the code joins are sequences of one-character strings, so  *)
(* that ", ".join is computed and not assumed.  An exception that nothing  *)
(* catches ends the script run: pc = "crashed".                            *)
(***************************************************************************)
EXTENDS Integers, Sequences, FiniteSets, TLC

VARIABLES
    pc,                       \* position of the script
    input_lei,                \* st.text_input value
    data,                     \* the dict get_lei_information returned last
    relationships,            \* base_data["data"]["relationships"], in dict order
    relIdx,                   \* position of the for loop of fetch_relationship_data
    results,                  \* results list of fetch_relationship_data
    related_leis,             \* list(set(related_leis)) of extract_related_leis
    leiIdx,                   \* position of the for loop over related_leis
    relationship_df_display,  \* rows stacked by pd.concat
    output,                   \* widgets rendered by streamlit, in order
    fetchLog,                 \* history: every requests.get, in order, with its outcome
    calls,                    \* history: functions of the module invoked, in order
    record,                   \* SpecFlatten: the argument of json_to_dataframe
    flat,                     \* SpecFlatten: what json_to_dataframe returned
    series,                   \* SpecExtract: the relationship_data argument
    returned                  \* SpecExtract: what extract_related_leis returned

vars == <<pc, input_lei, data, relationships, relIdx, results, related_leis, leiIdx,
          relationship_df_display, output, fetchLog, calls, record, flat, series, returned>>

lookupVars == <<pc, input_lei, data, relationships, relIdx, results, related_leis, leiIdx,
                relationship_df_display, output, fetchLog, calls>>

pureVars == <<record, flat, series, returned>>

(***************************************************************************)
(* Bounds                                                                  *)
(***************************************************************************)
MaxLines == 2      \* longest addressLines / bic / spglobal list
MaxRels == 3       \* most entries of a record's relationships map
MaxEntries == 2    \* longest "data" list of a relationship payload
MaxCells == 2      \* most cells of the "Data" column handed to extract_related_leis

(***************************************************************************)
(* JSON values                                                             *)
(***************************************************************************)
NULL == "<null>"          \* JSON null / Python None
MISSING == "<missing>"    \* the key is absent from its dict

\* Sequences over S of length 0..n
RECURSIVE SeqUpTo(_, _)
SeqUpTo(S, n) ==
    IF n = 0 THEN {<<>>}
    ELSE LET shorter == SeqUpTo(S, n - 1)
         IN  shorter \cup {Append(s, x) : s \in {t \in shorter : Len(t) = n - 1}, x \in S}

Range(s) == {s[i] : i \in 1..Len(s)}

\* A list-valued key: absent, null, or a list
ListVal(items) == [t |-> "list", l |-> items]
NullList == [t |-> "null", l |-> <<>>]
MissingList == [t |-> "missing", l |-> <<>>]

\* Python truthiness of d[key] once the key is known to be there
Truthy(v) == v.t = "list" /\ v.l # <<>>

\* A string that json_to_dataframe writes: None or a str
NoneVal == [none |-> TRUE, s |-> <<>>]
StrVal(s) == [none |-> FALSE, s |-> s]

(***************************************************************************)
(* json_to_dataframe                                                       *)
(***************************************************************************)
\* The columns read straight from one path: <<column, path>>
ScalarColumns == <<
    <<"LEI", "attributes.lei">>,
    <<"Legal Name", "entity.legalName.name">>,
    <<"Legal Name Language", "entity.legalName.language">>,
    <<"Legal Address Language", "entity.legalAddress.language">>,
    <<"Legal Address City", "entity.legalAddress.city">>,
    <<"Legal Address Region", "entity.legalAddress.region">>,
    <<"Legal Address Country", "entity.legalAddress.country">>,
    <<"Legal Address Postal Code", "entity.legalAddress.postalCode">>,
    <<"Headquarters Address Language", "entity.headquartersAddress.language">>,
    <<"Headquarters Address City", "entity.headquartersAddress.city">>,
    <<"Headquarters Address Region", "entity.headquartersAddress.region">>,
    <<"Headquarters Address Country", "entity.headquartersAddress.country">>,
    <<"Headquarters Address Postal Code", "entity.headquartersAddress.postalCode">>,
    <<"Jurisdiction", "entity.jurisdiction">>,
    <<"Category", "entity.category">>,
    <<"Legal Form ID", "entity.legalForm.id">>,
    <<"Registered At ID", "entity.registeredAt.id">>,
    <<"Registered As", "entity.registeredAs">>,
    <<"Entity Status", "entity.status">>,
    <<"Creation Date", "entity.creationDate">>,
    <<"Expiration Date", "entity.expiration.date">>,
    <<"Expiration Reason", "entity.expiration.reason">>,
    <<"Associated Entity LEI", "entity.associatedEntity.lei">>,
    <<"Associated Entity Name", "entity.associatedEntity.name">>,
    <<"MIC", "attributes.mic">>,
    <<"OCID", "attributes.ocid">>,
    <<"Conformity Flag", "attributes.conformityFlag">>,
    <<"Initial Registration Date", "registration.initialRegistrationDate">>,
    <<"Last Update Date", "registration.lastUpdateDate">>,
    <<"Next Renewal Date", "registration.nextRenewalDate">>,
    <<"Registration Status", "registration.status">>,
    <<"Managing LOU", "registration.managingLou">>,
    <<"Corroboration Level", "registration.corroborationLevel">>,
    <<"Validated At ID", "registration.validatedAt.id">>,
    <<"Validated As", "registration.validatedAs">> >>

ScalarPaths == {ScalarColumns[i][2] : i \in 1..Len(ScalarColumns)}
ScalarNames == {ScalarColumns[i][1] : i \in 1..Len(ScalarColumns)}
PathOf(col) == (CHOOSE i \in 1..Len(ScalarColumns) : ScalarColumns[i][1] = col)

\* ", " as str.join inserts it
Separator == <<",", " ">>

\* ", ".join(lines)
RECURSIVE Join(_)
Join(lines) ==
    IF lines = <<>> THEN <<>>
    ELSE IF Len(lines) = 1 THEN lines[1]
    ELSE lines[1] \o Separator \o Join(Tail(lines))

\* ", ".join(d["addressLines"]): the empty list gives the empty str
JoinAddressLinesNull(v) == IF Truthy(v) THEN StrVal(Join(v.l)) ELSE NoneVal
JoinAddressLines(v) == StrVal(Join(v.l))

\* ", ".join(attributes[key]) if attributes[key] else None
JoinCodes(v) == IF Truthy(v) THEN StrVal(Join(v.l)) ELSE NoneVal

\* entity["transliteratedOtherNames"][0][field] if entity["transliteratedOtherNames"] else None
FirstName(v, field) == IF Truthy(v) THEN v.l[1][field] ELSE NULL

\* The exceptions of the dict display: a KeyError for an absent key, a TypeError
\* for str.join over None
FlattenRaises(rec) ==
    \/ \E p \in ScalarPaths : rec.scalars[p] = MISSING
    \/ rec.transliteratedOtherNames.t = "missing"
    \/ rec.legalAddressLines.t # "list"
    \/ rec.headquartersAddressLines.t # "list"
    \/ rec.bic.t = "missing"
    \/ rec.spglobal.t = "missing"

NoRow == [cols |-> [c \in ScalarNames |-> NULL],
          tname |-> NULL, tlang |-> NULL, ttype |-> NULL,
          legalAddress |-> NoneVal, headquartersAddress |-> NoneVal,
          bic |-> NoneVal, spglobal |-> NoneVal]

FlatData(rec) ==
    [cols |-> [c \in ScalarNames |-> rec.scalars[ScalarColumns[PathOf(c)][2]]],
     tname |-> FirstName(rec.transliteratedOtherNames, "name"),
     tlang |-> FirstName(rec.transliteratedOtherNames, "language"),
     ttype |-> FirstName(rec.transliteratedOtherNames, "type"),
     legalAddress |-> JoinAddressLines(rec.legalAddressLines),
     headquartersAddress |-> JoinAddressLines(rec.headquartersAddressLines),
     bic |-> JoinCodes(rec.bic),
     spglobal |-> JoinCodes(rec.spglobal)]

json_to_dataframe(rec) ==
    IF FlattenRaises(rec) THEN [raised |-> TRUE, row |-> NoRow]
    ELSE [raised |-> FALSE, row |-> FlatData(rec)]

(***************************************************************************)
(* Records of the registry                                                 *)
(***************************************************************************)
AddressLineStrs == {<<"a">>, <<"b", "c">>}
BicStrs == {<<"X">>, <<"Y", "Z">>}
SpGlobalStrs == {<<"S">>}

\* d[key] for a list-valued key: absent, null, or a list of at most MaxLines strings
ListVals(strs) == {MissingList, NullList} \cup {ListVal(l) : l \in SeqUpTo(strs, MaxLines)}

NameEntry(n) == [name |-> n, language |-> "ja", type |-> "PREFERRED_ASCII_TRANSLITERATED_LEGAL_NAME"]
NamesVals == {MissingList, NullList, ListVal(<<>>), ListVal(<<NameEntry("n1")>>),
              ListVal(<<NameEntry("n1"), NameEntry("n2")>>)}

\* Every documented scalar path present, with the registry's value or null
ScalarsOf(lei, v) == [p \in ScalarPaths |-> IF p = "attributes.lei" THEN lei ELSE v]
\* ... and the same with one key absent
Without(scalars, path) == [p \in ScalarPaths |-> IF p = path THEN MISSING ELSE scalars[p]]

MakeRecord(scalars, names, legal, hq, bic, spglobal, rels) ==
    [scalars |-> scalars, transliteratedOtherNames |-> names,
     legalAddressLines |-> legal, headquartersAddressLines |-> hq,
     bic |-> bic, spglobal |-> spglobal, relationships |-> rels]

\* What the registry sends for an identifier: every key of the schema present,
\* the optional lists null
RegistryRecord(lei, rels) ==
    MakeRecord(ScalarsOf(lei, "v"), NullList, ListVal(<<<<"a">>>>), ListVal(<<>>),
               NullList, ListVal(<<<<"X">>>>), rels)

NoRecord == MakeRecord([p \in ScalarPaths |-> MISSING], MissingList, MissingList, MissingList,
                       MissingList, MissingList, <<>>)

ScalarsVals == {ScalarsOf("L1", "v"), Without(ScalarsOf("L1", "v"), "entity.legalForm.id")}

NotFlattened == [called |-> FALSE, raised |-> FALSE, row |-> NoRow]
NotReturned == [called |-> FALSE, raised |-> FALSE, leis |-> <<>>]

(***************************************************************************)
(* Relationship maps and relationship payloads                             *)
(***************************************************************************)
\* What the user may type into the text input
InputLeis == {"L1", "L2"}
DefaultLei == "L1"

RelNames == <<"direct-parent", "ultimate-parent", "direct-children", "managing-lou",
              "lei-issuer", "field-modifications">>
RelLinks == <<"https://api.gleif.org/direct-parent", "https://api.gleif.org/ultimate-parent",
              "https://api.gleif.org/direct-children", "https://api.gleif.org/managing-lou",
              "https://api.gleif.org/lei-issuer", "https://api.gleif.org/field-modifications">>

\* rel_data.get("links", {}).get("related") is the link, or None
RelationshipMaps ==
    UNION {{[i \in 1..n |-> [name |-> RelNames[i],
                            link |-> IF i \in linked THEN RelLinks[i] ELSE NULL]] :
               linked \in SUBSET (1..n)} : n \in 0..MaxRels}

\* One object of a payload's "data": entry.get("attributes", {}).get("lei") is a
\* str, "" or None (None also when "attributes" or "lei" is absent)
Entry(lei) == [lei |-> lei]

ListPayload(entries) == [kind |-> "list", entries |-> entries]
DictPayload(entry) == [kind |-> "dict", entries |-> <<entry>>]
OtherPayload == [kind |-> "other", entries |-> <<>>]
\* The cell pandas gives a row that has no "Data" key
NaN == [kind |-> "nan", entries |-> <<>>]

\* The payloads the registry answers a relationship link with during a lookup
LinkPayloads ==
    {DictPayload(Entry("L2")), DictPayload(Entry("L3"))}
    \cup {ListPayload(<<>>), ListPayload(<<Entry("L1"), Entry("L2")>>),
          ListPayload(<<Entry("L3"), Entry(""), Entry("L3")>>), OtherPayload}

(***************************************************************************)
(* HTTP                                                                    *)
(***************************************************************************)
StatusCodes == {200, 404, 500}

\* requests.get either raises a RequestException or returns a response
Transport == [exc |-> TRUE, status |-> 0]
Http(status) == [exc |-> FALSE, status |-> status]
Responses == {Transport} \cup {Http(st) : st \in StatusCodes}

\* The relationships a related entity's own record carries (never followed)
RelatedEntityRelationships == <<[name |-> RelNames[1], link |-> RelLinks[1]]>>

(***************************************************************************)
(* get_lei_information                                                     *)
(***************************************************************************)
ErrorDict(msg, details) == [error |-> msg, details |-> details, json |-> NoRecord]
RecordDict(rec) == [error |-> MISSING, details |-> MISSING, json |-> rec]

get_lei_information(lei, response, body) ==
    IF response.exc
    THEN ErrorDict("An error occurred during the request.", "ConnectionError")
    ELSE IF response.status = 200
         THEN RecordDict(body)
         ELSE ErrorDict("Error retrieving data (status code " \o ToString(response.status) \o ").",
                        "body")

\* "error" in data
IsErrorNever(d) == FALSE
IsError(d) == d.error # MISSING

(***************************************************************************)
(* fetch_relationship_data                                                 *)
(***************************************************************************)
\* if related_link:
HasLink(rel) == rel.link # NULL /\ rel.link # ""

\* response.raise_for_status() raises HTTPError for 4xx and 5xx
RaisesForStatus(response) == response.status >= 400 /\ response.status < 600

DataEntry(rel, payload) ==
    [name |-> rel.name, link |-> rel.link, hasData |-> TRUE, data |-> payload, error |-> MISSING]
ErrorEntry(rel, response) ==
    [name |-> rel.name, link |-> rel.link, hasData |-> FALSE, data |-> NaN,
     error |-> IF response.exc THEN "ConnectionError" ELSE "HTTPError " \o ToString(response.status)]

\* The body of the try statement: the entry appended for one linked relationship
RelationshipEntryDropError(rel, response, payload) ==
    IF response.exc \/ RaisesForStatus(response)
    THEN <<>>
    ELSE <<DataEntry(rel, payload)>>
RelationshipEntry(rel, response, payload) ==
    IF response.exc \/ RaisesForStatus(response)
    THEN <<ErrorEntry(rel, response)>>
    ELSE <<DataEntry(rel, payload)>>

(***************************************************************************)
(* extract_related_leis                                                    *)
(***************************************************************************)
\* if lei and lei != input_lei
KeepsKeepInput(lei, input) == lei # NULL /\ lei # ""
Keeps(lei, input) == lei # NULL /\ lei # "" /\ lei # input

\* The appends of one relationship: a list, a dict, or neither
RECURSIVE AppendKept(_, _, _)
AppendKept(acc, entries, input) ==
    IF entries = <<>> THEN acc
    ELSE AppendKept(IF Keeps(Head(entries).lei, input) THEN Append(acc, Head(entries).lei) ELSE acc,
                    Tail(entries), input)

FromPayload(acc, payload, input) ==
    IF payload.kind = "list" THEN AppendKept(acc, payload.entries, input)
    ELSE IF payload.kind = "dict" THEN AppendKept(acc, payload.entries, input)
    ELSE acc

\* related_leis after the loop over relationship_data
RECURSIVE Extracted(_, _, _)
Extracted(acc, relationship_data, input) ==
    IF relationship_data = <<>> THEN acc
    ELSE Extracted(FromPayload(acc, Head(relationship_data), input),
                   Tail(relationship_data), input)

\* relationship.get("data") on a NaN cell raises AttributeError
ExtractRaises(relationship_data) ==
    \E i \in 1..Len(relationship_data) : relationship_data[i].kind = "nan"

\* list(set(related_leis)): every element once, in an order the hash decides
Orderings(S) == {s \in [1..Cardinality(S) -> S] : Range(s) = S}
ListOfSetKeepAll(list) == {list}
ListOfSet(list) == Orderings(Range(list))

\* The values extract_related_leis can return
extract_related_leis(relationship_data, input) ==
    ListOfSet(Extracted(<<>>, relationship_data, input))

(***************************************************************************)
(* pandas                                                                  *)
(***************************************************************************)
\* pd.DataFrame(results).empty
DataFrameEmpty(rows) == rows = <<>>
\* "Data" is a column when some row has the key; relationship_df["Data"] raises
\* KeyError otherwise
HasDataColumn(rows) == \E i \in 1..Len(rows) : rows[i].hasData
\* relationship_df["Data"]: the payload, or NaN in the rows without the key
DataColumn(rows) == [i \in 1..Len(rows) |-> rows[i].data]

\* pd.concat([relationship_df_display, json_to_dataframe(data)])
ConcatReplace(display, row) == <<row>>
Concat(display, row) == Append(display, row)

(***************************************************************************)
(* streamlit                                                               *)
(***************************************************************************)
Widget(w, text, rows) == [widget |-> w, text |-> text, rows |-> rows]
StError(d) == <<Widget("error", d.error, <<>>), Widget("write", d.details, <<>>)>>
NoRelationships == <<Widget("info", "No relationships found.", <<>>)>>

Fetched(kind, url, response, payload) ==
    [kind |-> kind, url |-> url, exc |-> response.exc, status |-> response.status,
     payload |-> payload]

(***************************************************************************)
(* The lookup cycle (main script)                                          *)
(***************************************************************************)
NoData == ErrorDict(MISSING, MISSING)

LookupInit ==
    /\ pc = "idle"
    /\ input_lei = DefaultLei
    /\ data = NoData
    /\ relationships = <<>>
    /\ relIdx = 1
    /\ results = <<>>
    /\ related_leis = <<>>
    /\ leiIdx = 1
    /\ relationship_df_display = <<>>
    /\ output = <<>>
    /\ fetchLog = <<>>
    /\ calls = <<>>

\* The user types an identifier and presses the button: streamlit reruns the script
Click ==
    /\ pc \in {"idle", "done", "crashed"}
    /\ \E lei \in InputLeis : input_lei' = lei
    /\ pc' = "fetch_primary"
    /\ data' = NoData
    /\ relationships' = <<>>
    /\ relIdx' = 1
    /\ results' = <<>>
    /\ related_leis' = <<>>
    /\ leiIdx' = 1
    /\ relationship_df_display' = <<>>
    /\ output' = <<>>
    /\ fetchLog' = <<>>
    /\ calls' = <<>>
    /\ UNCHANGED <<pureVars>>

\* Lines 186-199: the primary fetch, the company table, entry into
\* fetch_relationship_data
PrimaryLookup ==
    /\ pc = "fetch_primary"
    /\ \E response \in Responses, rels \in RelationshipMaps :
        LET body == RegistryRecord(input_lei, rels)
            d == get_lei_information(input_lei, response, body)
            company_df == json_to_dataframe(d.json)
        IN  /\ data' = d
            /\ fetchLog' = Append(fetchLog, Fetched("lei-record", input_lei, response, NaN))
            /\ IF IsError(d)
               THEN /\ output' = output \o StError(d)
                    /\ calls' = calls \o <<"get_lei_information">>
                    /\ pc' = "done"
                    /\ UNCHANGED relationships
               ELSE IF company_df.raised
               THEN /\ output' = output \o <<Widget("subheader", "Company Information", <<>>)>>
                    /\ calls' = calls \o <<"get_lei_information", "json_to_dataframe">>
                    /\ pc' = "crashed"
                    /\ UNCHANGED relationships
               ELSE /\ output' = output \o
                        <<Widget("subheader", "Company Information", <<>>),
                          Widget("dataframe", "company", <<company_df.row>>),
                          Widget("subheader", "Company Relationships", <<>>)>>
                    /\ calls' = calls \o <<"get_lei_information", "json_to_dataframe",
                                           "fetch_relationship_data">>
                    /\ relationships' = d.json.relationships
                    /\ pc' = "fetch_relationships"
    /\ UNCHANGED <<input_lei, relIdx, results, related_leis, leiIdx,
                   relationship_df_display, pureVars>>

\* Lines 119-142: one iteration of the loop over relationships.items()
RelationshipIteration ==
    /\ pc = "fetch_relationships"
    /\ relIdx <= Len(relationships)
    /\ LET rel == relationships[relIdx]
       IN  IF HasLink(rel)
           THEN \E response \in Responses :
                \E payload \in IF response.exc \/ response.status # 200
                                THEN {NaN} ELSE LinkPayloads :
                   /\ fetchLog' = Append(fetchLog, Fetched("link", rel.link, response, payload))
                   /\ results' = results \o RelationshipEntry(rel, response, payload)
           ELSE UNCHANGED <<fetchLog, results>>
    /\ relIdx' = relIdx + 1
    /\ UNCHANGED <<pc, input_lei, data, relationships, related_leis, leiIdx,
                   relationship_df_display, output, calls, pureVars>>

\* Lines 145 and 201-206, 221-222: the DataFrame of the results, the "Data"
\* column and extract_related_leis
ResolveRelated ==
    /\ pc = "fetch_relationships"
    /\ relIdx > Len(relationships)
    /\ IF DataFrameEmpty(results)
       THEN /\ output' = output \o NoRelationships
            /\ pc' = "done"
            /\ UNCHANGED <<related_leis, calls>>
       ELSE IF ~HasDataColumn(results)
       THEN /\ pc' = "crashed"
            /\ UNCHANGED <<related_leis, output, calls>>
       ELSE /\ calls' = Append(calls, "extract_related_leis")
            /\ IF ExtractRaises(DataColumn(results))
               THEN /\ pc' = "crashed"
                    /\ UNCHANGED <<related_leis, output>>
               ELSE /\ related_leis' \in extract_related_leis(DataColumn(results), input_lei)
                    /\ pc' = "fetch_related"
                    /\ UNCHANGED output
    /\ UNCHANGED <<input_lei, data, relationships, relIdx, results, leiIdx,
                   relationship_df_display, fetchLog, pureVars>>

\* Lines 207-215: one iteration of the loop over related_leis
RelatedIteration ==
    /\ pc = "fetch_related"
    /\ leiIdx <= Len(related_leis)
    /\ \E response \in Responses :
        LET related_lei == related_leis[leiIdx]
            body == RegistryRecord(related_lei, RelatedEntityRelationships)
            d == get_lei_information(related_lei, response, body)
            df == json_to_dataframe(d.json)
        IN  /\ data' = d
            /\ fetchLog' = Append(fetchLog, Fetched("lei-record", related_lei, response, NaN))
            /\ IF IsError(d)
               THEN /\ output' = output \o StError(d)
                    /\ calls' = Append(calls, "get_lei_information")
                    /\ pc' = pc
                    /\ UNCHANGED relationship_df_display
               ELSE IF df.raised
               THEN /\ calls' = calls \o <<"get_lei_information", "json_to_dataframe">>
                    /\ pc' = "crashed"
                    /\ UNCHANGED <<output, relationship_df_display>>
               ELSE /\ calls' = calls \o <<"get_lei_information", "json_to_dataframe">>
                    /\ relationship_df_display' = Concat(relationship_df_display, df.row)
                    /\ pc' = pc
                    /\ UNCHANGED output
    /\ leiIdx' = leiIdx + 1
    /\ UNCHANGED <<input_lei, relationships, relIdx, results, related_leis, pureVars>>

\* Lines 217-220: the related-entity table, or the notice
Render ==
    /\ pc = "fetch_related"
    /\ leiIdx > Len(related_leis)
    /\ output' = output \o
          (IF relationship_df_display # <<>>
           THEN <<Widget("dataframe", "related", relationship_df_display)>>
           ELSE NoRelationships)
    /\ pc' = "done"
    /\ UNCHANGED <<input_lei, data, relationships, relIdx, results, related_leis, leiIdx,
                   relationship_df_display, fetchLog, calls, pureVars>>

Init ==
    /\ LookupInit
    /\ record = NoRecord
    /\ flat = NotFlattened
    /\ series = <<>>
    /\ returned = NotReturned

Next ==
    \/ Click
    \/ PrimaryLookup
    \/ RelationshipIteration
    \/ ResolveRelated
    \/ RelatedIteration
    \/ Render

Spec == Init /\ [][Next]_vars

(***************************************************************************)
(* json_to_dataframe on its own                                            *)
(***************************************************************************)
InitFlatten ==
    /\ LookupInit
    /\ \E sc \in ScalarsVals, names \in NamesVals,
          legal \in ListVals(AddressLineStrs), hq \in ListVals(AddressLineStrs),
          bic \in ListVals(BicStrs), sp \in ListVals(SpGlobalStrs) :
            record = MakeRecord(sc, names, legal, hq, bic, sp, <<>>)
    /\ flat = NotFlattened
    /\ series = <<>>
    /\ returned = NotReturned

Flatten ==
    /\ ~flat.called
    /\ flat' = [called |-> TRUE] @@ json_to_dataframe(record)
    /\ UNCHANGED <<record, series, returned, lookupVars>>

NextFlatten == Flatten

SpecFlatten == InitFlatten /\ [][NextFlatten]_vars

(***************************************************************************)
(* extract_related_leis on its own                                         *)
(***************************************************************************)
\* The identifier typed in: one that the payloads mention, one that they do not
ExtractInputs == {"L1", "L3"}
\* The cells of the "Data" column: payloads whose lists hold an identifier or
\* nothing, whose single object may also hold "", and the NaN of a failed row
ExtractCells ==
    {ListPayload(es) : es \in SeqUpTo({Entry(l) : l \in {"L1", "L2", NULL}}, MaxEntries)}
    \cup {DictPayload(Entry(l)) : l \in {"L1", "L2", NULL, ""}}
    \cup {ListPayload(<<Entry("")>>), OtherPayload, NaN}

InitExtract ==
    /\ LookupInit
    /\ record = NoRecord
    /\ flat = NotFlattened
    /\ series \in SeqUpTo(ExtractCells, MaxCells)
    /\ returned = NotReturned

Extract ==
    /\ ~returned.called
    /\ \E lei \in ExtractInputs :
        /\ input_lei' = lei
        /\ IF ExtractRaises(series)
           THEN returned' = [called |-> TRUE, raised |-> TRUE, leis |-> <<>>]
           ELSE \E l \in extract_related_leis(series, lei) :
                   returned' = [called |-> TRUE, raised |-> FALSE, leis |-> l]
    /\ UNCHANGED <<pc, data, relationships, relIdx, results, related_leis, leiIdx,
                   relationship_df_display, output, fetchLog, calls, record, flat, series>>

NextExtract == Extract

SpecExtract == InitExtract /\ [][NextExtract]_vars

(***************************************************************************)
(* Properties of extract_related_leis (SpecExtract)                        *)
(***************************************************************************)
\* The identifiers the objects of the list- and dict-shaped cells carry
Mentioned(cells) ==
    UNION {{cells[i].entries[j].lei : j \in 1..Len(cells[i].entries)} :
             i \in {k \in 1..Len(cells) : cells[k].kind \in {"list", "dict"}}}

\* C6: whatever the shapes of the payloads' data fields, the returned
\* collection holds neither the input identifier nor an empty or missing one
C6_ExcludesInput ==
    (returned.called /\ ~returned.raised) =>
        \A i \in 1..Len(returned.leis) :
            /\ returned.leis[i] # input_lei
            /\ returned.leis[i] # ""
            /\ returned.leis[i] # NULL

\* The input identifier occurs in a list next to another identifier, a single
\* object carries an empty identifier, and something is returned
C6_Witness ==
    /\ returned.called /\ ~returned.raised
    /\ returned.leis # <<>>
    /\ \E i, j \in 1..Len(series) :
        /\ series[i].kind = "list" /\ Entry(input_lei) \in Range(series[i].entries)
        /\ series[j].kind = "dict" /\ series[j].entries[1].lei = ""

\* C7: an identifier occurring several times is returned once, and every
\* non-empty identifier other than the input is returned
C7_Deduplicates ==
    (returned.called /\ ~returned.raised) =>
        /\ \A i, j \in 1..Len(returned.leis) : i # j => returned.leis[i] # returned.leis[j]
        /\ Range(returned.leis) = Mentioned(series) \ {NULL, "", input_lei}

\* One identifier twice within a list and again in another payload, returned once
C7_Witness ==
    /\ returned.called /\ ~returned.raised
    /\ returned.leis = <<"L2">>
    /\ \E i, j \in 1..Len(series) :
        /\ i # j
        /\ series[i] = ListPayload(<<Entry("L2"), Entry("L2")>>)
        /\ series[j].kind = "dict" /\ series[j].entries[1].lei = "L2"

(***************************************************************************)
(* Properties of json_to_dataframe (SpecFlatten)                           *)
(***************************************************************************)
\* Where entry i of a joined list starts: after the entries before it and
\* their separators
RECURSIVE Offset(_, _)
Offset(lines, i) == IF i = 1 THEN 0 ELSE Offset(lines, i - 1) + Len(lines[i - 1]) + 2

\* s is the entries of lines, in order, with ", " between neighbours
IsJoined(s, lines) ==
    /\ Len(s) = Offset(lines, Len(lines)) + Len(lines[Len(lines)])
    /\ \A i \in 1..Len(lines) :
        /\ SubSeq(s, Offset(lines, i) + 1, Offset(lines, i) + Len(lines[i])) = lines[i]
        /\ i > 1 => /\ s[Offset(lines, i) - 1] = ","
                    /\ s[Offset(lines, i)] = " "

\* Every required path is there: the scalar ones and the two addressLines lists
RequiredPresent(rec) ==
    /\ \A p \in ScalarPaths : rec.scalars[p] # MISSING
    /\ rec.legalAddressLines.t = "list"
    /\ rec.headquartersAddressLines.t = "list"

\* An optional list that is absent (no such key) or empty (null or [])
AbsentOrEmpty(v) == ~Truthy(v)

\* C9: with every required path present, an absent or empty optional field
\* (transliterated names, BIC codes, SP Global IDs) gives a row with null in
\* its columns, and no exception
C9_AbsentOptionalIsNull ==
    (flat.called /\ RequiredPresent(record)) =>
        /\ ~flat.raised
        /\ AbsentOrEmpty(record.transliteratedOtherNames) =>
              flat.row.tname = NULL /\ flat.row.tlang = NULL /\ flat.row.ttype = NULL
        /\ AbsentOrEmpty(record.bic) => flat.row.bic = NoneVal
        /\ AbsentOrEmpty(record.spglobal) => flat.row.spglobal = NoneVal

\* C10: an empty addressLines list gives "" and never null, a non-empty list
\* gives its entries joined with ", " in order, an empty code list gives null
\* and never ""
AddressJoined(out, v) ==
    /\ ~out.none
    /\ v.l = <<>> => out.s = <<>>
    /\ v.l # <<>> => IsJoined(out.s, v.l)

CodesJoined(out, v) ==
    /\ (v.t = "list" /\ v.l = <<>>) => out = NoneVal
    /\ (v.t = "list" /\ v.l # <<>>) => ~out.none /\ IsJoined(out.s, v.l)

C10_NullVersusEmpty ==
    (flat.called /\ ~flat.raised) =>
        /\ AddressJoined(flat.row.legalAddress, record.legalAddressLines)
        /\ AddressJoined(flat.row.headquartersAddress, record.headquartersAddressLines)
        /\ CodesJoined(flat.row.bic, record.bic)
        /\ CodesJoined(flat.row.spglobal, record.spglobal)

\* An empty address list beside a two-line one, an empty code list beside a
\* two-code one
C10_Witness ==
    /\ flat.called /\ ~flat.raised
    /\ record.legalAddressLines = ListVal(<<>>)
    /\ flat.row.legalAddress = StrVal(<<>>)
    /\ record.headquartersAddressLines = ListVal(<<<<"b", "c">>, <<"a">>>>)
    /\ flat.row.headquartersAddress = StrVal(<<"b", "c", ",", " ", "a">>)
    /\ record.bic = ListVal(<<>>)
    /\ flat.row.bic = NoneVal
    /\ record.spglobal = ListVal(<<<<"S">>, <<"S">>>>)

(***************************************************************************)
(* Properties of the lookup cycle (Spec)                                   *)
(***************************************************************************)
IsLinkFetch(f) == f.kind = "link"
IsRecordFetch(f) == f.kind = "lei-record"
Failed(f) == f.exc \/ f.status # 200
Succeeded(f) == ~Failed(f)
IsErrorWidget(w) == w.widget = "error"
CarriesLink(rel) == rel.link # NULL

LinkFetches == SelectSeq(fetchLog, IsLinkFetch)
RecordFetches == SelectSeq(fetchLog, IsRecordFetch)
\* The fetches of related entities: every record fetch after the primary one
RelatedFetches == IF RecordFetches = <<>> THEN <<>> ELSE Tail(RecordFetches)
ErrorsShown == SelectSeq(output, IsErrorWidget)
Terminal == pc \in {"done", "crashed"}
LastOutput == output[Len(output)]

\* C1: with at least one link in the record's relationship map, no combination
\* of failing and succeeding link fetches aborts the lookup, which ends by
\* rendering the related-entity table or the 'No relationships found' notice
C1_LinkErrorsNeverAbort ==
    (\E i \in 1..Len(relationships) : CarriesLink(relationships[i])) =>
        /\ pc # "crashed"
        /\ pc = "done" =>
              \/ LastOutput.widget = "dataframe" /\ LastOutput.text = "related"
              \/ LastOutput.widget = "info"

\* C2: when a lookup ends, every fetch that failed (primary, relationship
\* link, related identifier) has its own error message on the page
C2_EveryFailureShown ==
    Terminal =>
        Len(ErrorsShown) = Len(SelectSeq(fetchLog, Failed))

\* C3: the results hold one entry per relationship that carries a link, in
\* order: the error entry of that relationship when its fetch failed, the
\* fetched payload otherwise; a relationship without a link is not fetched
\* and has no entry
C3_RelationshipsIndependent ==
    LET visited == SubSeq(relationships, 1, relIdx - 1)
        linked == SelectSeq(visited, CarriesLink)
    IN  /\ Len(results) = Len(linked)
        /\ Len(LinkFetches) = Len(linked)
        /\ \A k \in 1..Len(linked) :
            /\ results[k].name = linked[k].name
            /\ results[k].link = linked[k].link
            /\ LinkFetches[k].url = linked[k].link
            /\ IF Failed(LinkFetches[k])
               THEN ~results[k].hasData /\ results[k].error # MISSING
               ELSE /\ results[k].hasData /\ results[k].error = MISSING
                    /\ results[k].data = LinkFetches[k].payload

\* The loop is over; a relationship without a link, one whose fetch failed
\* and one whose fetch succeeded after it
C3_Witness ==
    /\ pc = "fetch_relationships"
    /\ relIdx > Len(relationships)
    /\ Len(relationships) = 3
    /\ ~CarriesLink(relationships[1])
    /\ Len(results) = 2
    /\ ~results[1].hasData
    /\ results[2].hasData /\ results[2].data = ListPayload(<<Entry("L1"), Entry("L2")>>)

\* C4: every related identifier whose fetch fails has its own error message,
\* and the related-entity table holds one flattened row for each identifier
\* whose fetch succeeded, whatever happened to the others
C4_RelatedIsolated ==
    (pc \in {"fetch_related", "done"} /\ related_leis # <<>>) =>
        LET ok == SelectSeq(RelatedFetches, Succeeded)
            bad == SelectSeq(RelatedFetches, Failed)
        IN  /\ Len(ErrorsShown) = Len(bad)
            /\ \A k \in 1..Len(bad) :
                  bad[k].exc <=> ErrorsShown[k].text = "An error occurred during the request."
            /\ Len(relationship_df_display) = Len(ok)
            /\ \A k \in 1..Len(ok) : relationship_df_display[k].cols["LEI"] = ok[k].url
            /\ pc = "done" =>
                /\ Len(RelatedFetches) = Len(related_leis)
                /\ IF ok = <<>>
                   THEN LastOutput.widget = "info"
                   ELSE /\ LastOutput.widget = "dataframe"
                        /\ LastOutput.rows = relationship_df_display

\* Two related identifiers: the fetch of the first fails, the table ends with
\* the row of the second
C4_Witness ==
    /\ pc = "done"
    /\ Len(related_leis) = 2
    /\ Len(RelatedFetches) = 2
    /\ Failed(RelatedFetches[1])
    /\ Succeeded(RelatedFetches[2])
    /\ LastOutput.widget = "dataframe"
    /\ Len(LastOutput.rows) = 1
    /\ LastOutput.rows[1].cols["LEI"] = related_leis[2]

\* C5: json_to_dataframe, fetch_relationship_data and the related fetches
\* happen only after a successful primary fetch; after a failed one the error
\* notice is the only output
C5_PrimaryFailureHalts ==
    fetchLog # <<>> =>
        /\ Failed(fetchLog[1]) =>
            /\ calls = <<"get_lei_information">>
            /\ Len(fetchLog) = 1
            /\ Len(output) = 2
            /\ output[1].widget = "error" /\ output[2].widget = "write"
            /\ results = <<>> /\ relationship_df_display = <<>>
            /\ pc = "done"
        /\ (Len(calls) > 1 \/ Len(fetchLog) > 1) => Succeeded(fetchLog[1])

\* The registry answers the primary fetch with a 500
C5_Witness ==
    /\ pc = "done"
    /\ Len(fetchLog) = 1
    /\ ~fetchLog[1].exc /\ fetchLog[1].status = 500
    /\ output[1] = Widget("error", "Error retrieving data (status code 500).", <<>>)

\* The identifiers of the payloads fetched successfully, without the empty
\* ones and the input
RelatedIdentifiers ==
    (UNION {{LinkFetches[i].payload.entries[j].lei : j \in 1..Len(LinkFetches[i].payload.entries)} :
              i \in {k \in 1..Len(LinkFetches) :
                        Succeeded(LinkFetches[k]) /\ LinkFetches[k].payload.kind \in {"list", "dict"}}})
    \ {NULL, "", input_lei}

====
